---- MODULE Spec2Model ----
(***************************************************************************)
(* Model of the Telegram finance bot of src/main.py: the webhook handler   *)
(* telegram_webhook, its command dispatch, and the Google sheet it reads,  *)
(* appends to and rewrites.                                                *)
(*                                                                         *)
(* A Python str is modelled as a sequence of one-character strings, so     *)
(* that lower(), strip(), split(), startswith(), replace(), isdigit(),     *)
(* int(), strptime() and strftime() are computed character by character.   *)
(* The sheet is the grid get_all_values() returns: a sequence of rows,     *)
(* each row a sequence of cells, each cell a str; row 1 is the header.     *)
(***************************************************************************)
EXTENDS Integers, Sequences, FiniteSets, TLC

\* ------------------------------------------------------------------------
\* Bounds of the model
\* ------------------------------------------------------------------------
\* Largest number of grid rows (header included) an append may produce.
MaxRows == 3
\* Latest clock reading, in 12-hour ticks after the first reading.
MaxClock == 1

\* ------------------------------------------------------------------------
\* Python str operations
\* ------------------------------------------------------------------------
Digits == <<"0","1","2","3","4","5","6","7","8","9">>
UpperCase == <<"A","B","C","D","E","F","G","H","I","J","K","L","M",
               "N","O","P","Q","R","S","T","U","V","W","X","Y","Z">>
LowerCase == <<"a","b","c","d","e","f","g","h","i","j","k","l","m",
               "n","o","p","q","r","s","t","u","v","w","x","y","z">>
\* The characters of the model in code-point order.
CodePoints == <<" ", "-", "/">> \o Digits \o <<":">> \o UpperCase \o <<"_">> \o LowerCase

Ord(c) == CHOOSE i \in 1..Len(CodePoints) : CodePoints[i] = c

IsDigitChar(c) == \E i \in 1..10 : Digits[i] = c

DigitVal(c) == (CHOOSE i \in 1..10 : Digits[i] = c) - 1

LowerChar(c) ==
    IF \E i \in 1..26 : UpperCase[i] = c
    THEN LowerCase[CHOOSE i \in 1..26 : UpperCase[i] = c]
    ELSE c

\* str.lower()
Lower(s) == [i \in 1..Len(s) |-> LowerChar(s[i])]

IsSpace(c) == c = " "

RECURSIVE LStrip(_)
LStrip(s) ==
    IF s = <<>> THEN s
    ELSE IF IsSpace(Head(s)) THEN LStrip(Tail(s)) ELSE s

RECURSIVE RStrip(_)
RStrip(s) ==
    IF s = <<>> THEN s
    ELSE IF IsSpace(s[Len(s)]) THEN RStrip(SubSeq(s, 1, Len(s) - 1)) ELSE s

\* str.strip()
Strip(s) == RStrip(LStrip(s))

RECURSIVE SplitAcc(_, _, _)
SplitAcc(s, cur, acc) ==
    IF s = <<>>
    THEN IF cur = <<>> THEN acc ELSE Append(acc, cur)
    ELSE IF IsSpace(Head(s))
         THEN SplitAcc(Tail(s), <<>>, IF cur = <<>> THEN acc ELSE Append(acc, cur))
         ELSE SplitAcc(Tail(s), Append(cur, Head(s)), acc)

\* str.split(): the whitespace-separated tokens
Split(s) == SplitAcc(s, <<>>, <<>>)

\* str.startswith(p)
StartsWith(s, p) == Len(s) >= Len(p) /\ SubSeq(s, 1, Len(p)) = p

\* str.replace(p, "", 1): the first occurrence of p removed
ReplaceFirst(s, p) ==
    LET hits == {i \in 1..(Len(s) - Len(p) + 1) : SubSeq(s, i, i + Len(p) - 1) = p}
    IN  IF hits = {} THEN s
        ELSE LET i == CHOOSE k \in hits : \A j \in hits : k <= j
             IN  SubSeq(s, 1, i - 1) \o SubSeq(s, i + Len(p), Len(s))

\* str.replace(" ", "")
RemoveSpaces(s) == SelectSeq(s, LAMBDA c : ~IsSpace(c))

\* str.isdigit()
IsDigit(s) == s # <<>> /\ \A i \in 1..Len(s) : IsDigitChar(s[i])

RECURSIVE ToInt(_)
\* int(s) of a digit string
ToInt(s) ==
    IF s = <<>> THEN 0
    ELSE 10 * ToInt(SubSeq(s, 1, Len(s) - 1)) + DigitVal(s[Len(s)])

RECURSIVE IntToStr(_)
\* str(n) of a non-negative int
IntToStr(n) ==
    IF n < 10 THEN <<Digits[n + 1]>>
    ELSE Append(IntToStr(n \div 10), Digits[(n % 10) + 1])

\* "%02d" and "%04d"
Pad2(n) == <<Digits[((n \div 10) % 10) + 1], Digits[(n % 10) + 1]>>
Pad4(n) == Pad2(n \div 100) \o Pad2(n % 100)

RECURSIVE StrLess(_, _)
\* a < b for two Python strs (code-point order)
StrLess(a, b) ==
    IF b = <<>> THEN FALSE
    ELSE IF a = <<>> THEN TRUE
    ELSE IF Head(a) = Head(b) THEN StrLess(Tail(a), Tail(b))
    ELSE Ord(Head(a)) < Ord(Head(b))

RECURSIVE SplitOn(_, _, _, _)
SplitOn(s, sep, cur, acc) ==
    IF s = <<>> THEN Append(acc, cur)
    ELSE IF Head(s) = sep THEN SplitOn(Tail(s), sep, <<>>, Append(acc, cur))
    ELSE SplitOn(Tail(s), sep, Append(cur, Head(s)), acc)

\* ------------------------------------------------------------------------
\* datetime: the calendar, strptime(s, "%d-%m-%Y"), strftime
\* ------------------------------------------------------------------------
IsLeap(y) == (y % 4 = 0 /\ y % 100 # 0) \/ y % 400 = 0

DaysInMonth(m, y) ==
    IF m = 2 THEN (IF IsLeap(y) THEN 29 ELSE 28)
    ELSE IF m \in {4, 6, 9, 11} THEN 30 ELSE 31

\* datetime.strptime(s, "%d-%m-%Y") does not raise ValueError.  %d is one or
\* two digits naming 1..31, %m one or two digits naming 1..12, %Y exactly
\* four digits; the date must exist in the calendar.
StrptimeOk(s) ==
    LET p == SplitOn(s, "-", <<>>, <<>>)
    IN  /\ Len(p) = 3
        /\ IsDigit(p[1]) /\ Len(p[1]) <= 2
        /\ IsDigit(p[2]) /\ Len(p[2]) <= 2
        /\ IsDigit(p[3]) /\ Len(p[3]) = 4
        /\ ToInt(p[3]) >= 1
        /\ ToInt(p[2]) \in 1..12
        /\ ToInt(p[1]) \in 1..DaysInMonth(ToInt(p[2]), ToInt(p[3]))

\* The clock reads 31-01-2026 12:00:00 at tick 0 and advances 12 hours a tick.
Epoch == [day |-> 31, month |-> 1, year |-> 2026, halfday |-> 1]

RECURSIVE AddDays(_, _)
AddDays(d, n) ==
    IF n = 0 THEN d
    ELSE IF d.day < DaysInMonth(d.month, d.year)
         THEN AddDays([d EXCEPT !.day = d.day + 1], n - 1)
    ELSE IF d.month < 12
         THEN AddDays([d EXCEPT !.day = 1, !.month = d.month + 1], n - 1)
    ELSE AddDays([d EXCEPT !.day = 1, !.month = 1, !.year = d.year + 1], n - 1)

\* datetime.now() at clock tick t
DateTimeAt(t) ==
    LET h == Epoch.halfday + t
        d == AddDays(Epoch, h \div 2)
    IN  [day |-> d.day, month |-> d.month, year |-> d.year, hour |-> 12 * (h % 2)]

\* strftime("%d-%m-%Y")
FormatDate(dt) == Pad2(dt.day) \o <<"-">> \o Pad2(dt.month) \o <<"-">> \o Pad4(dt.year)

\* strftime("%d-%m-%Y %H:%M:%S")
FormatDateTime(dt) ==
    FormatDate(dt) \o <<" ">> \o Pad2(dt.hour) \o <<":">> \o Pad2(0) \o <<":">> \o Pad2(0)

\* ------------------------------------------------------------------------
\* The sheet (gspread worksheet "Finance_Records".sheet1)
\* ------------------------------------------------------------------------
STR_Customer_id == <<"C","u","s","t","o","m","e","r","_","i","d">>
STR_Customer_ID == <<"C","u","s","t","o","m","e","r"," ","I","D">>
STR_customer_id == <<"c","u","s","t","o","m","e","r","_","i","d">>
STR_Amount == <<"A","m","o","u","n","t">>
STR_Date == <<"D","a","t","e">>
STR_Timestamp == <<"T","i","m","e","s","t","a","m","p">>
STR_Entry_time == <<"E","n","t","r","y","_","t","i","m","e">>
STR_show == <<"s","h","o","w">>
STR_delete_all == <<"d","e","l","e","t","e"," ","a","l","l">>
STR_delete_all_sp == <<"d","e","l","e","t","e"," ","a","l","l"," ">>
STR_delete_sp == <<"d","e","l","e","t","e"," ">>

\* The header row the sheet is set up with.
expected_headers == <<STR_Customer_id, STR_Amount, STR_Date, STR_Timestamp>>

\* gspread's numericise, rendered back by str(): a cell of digits reads as an
\* int (leading zeros dropped), any other cell of the model stays a str.
Numericise(cell) == IF IsDigit(cell) THEN IntToStr(ToInt(cell)) ELSE cell

\* sheet.get_all_values(): the grid itself.
GetAllValues(sh) == sh

\* sheet.get_all_records(): one dict per row under the header row, keyed by
\* the header cells; no dict when the grid has no row under the header.
GetAllRecords(sh) ==
    IF Len(sh) <= 1 THEN <<>>
    ELSE [i \in 1..(Len(sh) - 1) |-> [keys |-> sh[1], vals |-> sh[i + 1]]]

\* dict.get(key, default), the value rendered by str()
RecordGet(r, key, default) ==
    LET idx == {j \in 1..Len(r.keys) : j <= Len(r.vals) /\ r.keys[j] = key}
    IN  IF idx = {} THEN default
        ELSE Numericise(r.vals[CHOOSE j \in idx : \A k \in idx : k <= j])

\* sheet.clear()
SheetClear(sh) == <<>>

\* sheet.update(values): writes values from cell A1 on; rows under the
\* written range keep what they hold.
SheetUpdate(sh, values) == values \o SubSeq(sh, Len(values) + 1, Len(sh))

\* sheet.append_row(row)
SheetAppendRow(sh, row) == Append(sh, row)

\* ------------------------------------------------------------------------
\* Outbound messages (send_message): the kind of text and the figures in it
\* ------------------------------------------------------------------------
Msg(kind) ==
    [kind |-> kind, id |-> <<>>, n |-> 0, given |-> 0, paid |-> 0, bal |-> 0,
     payments |-> <<>>]

\* ------------------------------------------------------------------------
\* SHOW: the summary of one customer
\* ------------------------------------------------------------------------
\* str(r.get("Customer_id", r.get("Customer ID", r.get("customer_id", "")))).strip()
SheetId(r) ==
    Strip(RecordGet(r, STR_Customer_id,
              RecordGet(r, STR_Customer_ID, RecordGet(r, STR_customer_id, <<>>))))

\* x.get("Entry_time", x.get("Timestamp", ""))
SortKey(r) == RecordGet(r, STR_Entry_time, RecordGet(r, STR_Timestamp, <<>>))

RECURSIVE InsertSorted(_, _)
InsertSorted(sorted, r) ==
    IF sorted = <<>> THEN <<r>>
    ELSE IF StrLess(SortKey(r), SortKey(Head(sorted))) THEN <<r>> \o sorted
    ELSE <<Head(sorted)>> \o InsertSorted(Tail(sorted), r)

RECURSIVE SortAcc(_, _)
SortAcc(rs, acc) ==
    IF rs = <<>> THEN acc ELSE SortAcc(Tail(rs), InsertSorted(acc, Head(rs)))

\* list.sort(key=...): stable, ascending by the str key
SortRows(rs) == SortAcc(rs, <<>>)

\* r.get("Amount", 0)
AmountOf(r) == RecordGet(r, STR_Amount, <<"0">>)

RECURSIVE SumAmounts(_)
SumAmounts(rs) ==
    IF rs = <<>> THEN 0 ELSE ToInt(AmountOf(Head(rs))) + SumAmounts(Tail(rs))

\* The messages of the show branch for the grid sh; fail = "read" when
\* get_all_records raises.
ShowMessages(sh, customer_id, fail) ==
    IF fail = "read" THEN <<Msg("show_error")>>
    ELSE
    LET records == GetAllRecords(sh)
    IN  IF records = <<>> THEN <<Msg("show_error")>>
        ELSE
        LET customer_rows == SelectSeq(records, LAMBDA r : SheetId(r) = customer_id)
            sorted == SortRows(customer_rows)
            payments == Tail(sorted)
            total_given == ToInt(AmountOf(sorted[1]))
            total_paid == SumAmounts(payments)
        IN  IF customer_rows = <<>>
            THEN <<Msg("debug_keys"), [Msg("not_found") EXCEPT !.id = customer_id]>>
            ELSE IF \E i \in 1..Len(sorted) : ~IsDigit(AmountOf(sorted[i]))
            THEN <<Msg("debug_keys"), Msg("show_error")>>
            ELSE <<Msg("debug_keys"),
                   [Msg("summary") EXCEPT
                      !.id = customer_id,
                      !.n = Len(sorted),
                      !.given = total_given,
                      !.paid = total_paid,
                      !.bal = total_given - total_paid,
                      !.payments = [i \in 1..Len(payments) |->
                          <<RecordGet(payments[i], STR_Date, <<>>), AmountOf(payments[i])>>]]>>

\* ------------------------------------------------------------------------
\* DELETE ALL and DELETE: the rows a delete writes back
\* ------------------------------------------------------------------------
\* Variant of the test below with the comparison turned round.
DeleteAllKeepsInverted(r, customer_id) == r[1] = customer_id

\* r[0] != customer_id
DeleteAllKeeps(r, customer_id) == r[1] # customer_id

RECURSIVE DeleteAllLoop(_, _, _, _)
DeleteAllLoop(rs, customer_id, new_rows, deleted) ==
    IF rs = <<>> THEN [new_rows |-> new_rows, deleted |-> deleted]
    ELSE IF Head(rs) # <<>>
         THEN IF DeleteAllKeeps(Head(rs), customer_id)
              THEN DeleteAllLoop(Tail(rs), customer_id, Append(new_rows, Head(rs)), deleted)
              ELSE DeleteAllLoop(Tail(rs), customer_id, new_rows, deleted + 1)
         ELSE DeleteAllLoop(Tail(rs), customer_id, new_rows, deleted)

\* Variant of the definition below whose loop starts at the header row.
DeleteAllRowsFromHeader(rows, customer_id) == DeleteAllLoop(rows, customer_id, <<>>, 0)

\* new_rows and deleted of the delete-all branch, rows being non-empty
DeleteAllRows(rows, customer_id) == DeleteAllLoop(Tail(rows), customer_id, <<rows[1]>>, 0)

\* Variant of the test below without "not deleted".
DeleteOneMatchesEvery(r, customer_id, amount, date, deleted) ==
    r[1] = customer_id /\ r[2] = amount /\ r[3] = date

\* r[0] == customer_id and r[1] == amount and r[2] == date and not deleted
DeleteOneMatches(r, customer_id, amount, date, deleted) ==
    r[1] = customer_id /\ r[2] = amount /\ r[3] = date /\ ~deleted

RECURSIVE DeleteOneLoop(_, _, _, _, _, _)
DeleteOneLoop(rs, customer_id, amount, date, new_rows, deleted) ==
    IF rs = <<>> THEN [new_rows |-> new_rows, deleted |-> deleted]
    ELSE IF Len(Head(rs)) >= 3 /\ DeleteOneMatches(Head(rs), customer_id, amount, date, deleted)
         THEN DeleteOneLoop(Tail(rs), customer_id, amount, date, new_rows, TRUE)
         ELSE DeleteOneLoop(Tail(rs), customer_id, amount, date, Append(new_rows, Head(rs)), deleted)

\* Variant of the definition below that walks the rows from the last to the
\* first, so that the last match is the one left out.
DeleteOneRowsLastMatch(rows, customer_id, amount, date) ==
    LET rev(q) == [i \in 1..Len(q) |-> q[Len(q) + 1 - i]]
        res == DeleteOneLoop(rev(Tail(rows)), customer_id, amount, date, <<>>, FALSE)
    IN  [new_rows |-> <<rows[1]>> \o rev(res.new_rows), deleted |-> res.deleted]

\* new_rows and deleted of the delete branch, rows being non-empty
DeleteOneRows(rows, customer_id, amount, date) ==
    DeleteOneLoop(Tail(rows), customer_id, amount, date, <<rows[1]>>, FALSE)

\* ------------------------------------------------------------------------
\* Dispatch: the if-chain of telegram_webhook
\* ------------------------------------------------------------------------
HelpWords == {<<"h","e","l","p">>, <<"/","h","e","l","p">>,
              <<"/","s","t","a","r","t">>, <<"c","o","m","m","a","n","d","s">>}

\* Variant of the chain below without the test for a single numeric token.
DispatchNoNumber(text) ==
    LET text_lower == Lower(text)
        parts == Split(text)
    IN  IF text_lower \in HelpWords THEN "help"
        ELSE IF StartsWith(text_lower, STR_show) THEN "show"
        ELSE IF StartsWith(text_lower, STR_delete_all_sp) THEN "delete_all"
        ELSE IF StartsWith(text_lower, STR_delete_sp) THEN "delete"
        ELSE IF Len(parts) = 2 \/ Len(parts) = 3 THEN "save"
        ELSE "unknown"

\* Variant of the chain below with the test for "delete " ahead of the
\* test for "delete all ".
DispatchDeleteFirst(text) ==
    LET text_lower == Lower(text)
        parts == Split(text)
    IN  IF text_lower \in HelpWords THEN "help"
        ELSE IF StartsWith(text_lower, STR_show) THEN "show"
        ELSE IF StartsWith(text_lower, STR_delete_sp) THEN "delete"
        ELSE IF StartsWith(text_lower, STR_delete_all_sp) THEN "delete_all"
        ELSE IF Len(parts) = 1 /\ IsDigit(RemoveSpaces(text)) THEN "number"
        ELSE IF Len(parts) = 2 \/ Len(parts) = 3 THEN "save"
        ELSE "unknown"

\* The branch that handles the stripped text: the first test that matches.
Dispatch(text) ==
    LET text_lower == Lower(text)
        parts == Split(text)
    IN  IF text_lower \in HelpWords THEN "help"
        ELSE IF StartsWith(text_lower, STR_show) THEN "show"
        ELSE IF StartsWith(text_lower, STR_delete_all_sp) THEN "delete_all"
        ELSE IF StartsWith(text_lower, STR_delete_sp) THEN "delete"
        ELSE IF Len(parts) = 1 /\ IsDigit(RemoveSpaces(text)) THEN "number"
        ELSE IF Len(parts) = 2 \/ Len(parts) = 3 THEN "save"
        ELSE "unknown"

\* customer_id of the show branch
ShowCustomerId(text) == Strip(ReplaceFirst(Lower(text), STR_show))

\* customer_id of the delete-all branch
DeleteAllCustomerId(text) == Strip(ReplaceFirst(Lower(text), STR_delete_all))

\* Variant of the test below that lets 0 through.
AmountNotNegative(amount) == amount >= 0

\* amount > 0
AmountPositive(amount) == amount > 0

\* The validation of the save branch: "ok", or the kind of the reply sent.
SaveValidation(customer_id, amount_str, date) ==
    IF customer_id = <<>> \/ Strip(customer_id) = <<>> THEN "empty_id"
    ELSE IF ~IsDigit(amount_str) THEN "amount_nan"
    ELSE IF ~AmountPositive(ToInt(amount_str)) THEN "amount_nonpos"
    ELSE IF ~StrptimeOk(date) THEN "bad_date"
    ELSE "ok"

\* The date of the save branch: today's when two tokens are given.
SaveDate(parts, t) == IF Len(parts) = 2 THEN FormatDate(DateTimeAt(t)) ELSE parts[3]

\* The row append_row is given.
SaveRow(parts, t) ==
    <<Strip(parts[1]), IntToStr(ToInt(parts[2])), SaveDate(parts, t),
      FormatDateTime(DateTimeAt(t))>>

\* ------------------------------------------------------------------------
\* State
\* ------------------------------------------------------------------------
VARIABLES
    sheet,   \* the grid of the worksheet
    now,     \* the clock, in ticks
    last,    \* the request handled last: its input, what it was given and what it did
    rerun,   \* when that request repeats the one before it: what the one before did
    pc,      \* concurrent requests: where each handler stands
    creq,    \* concurrent requests: the text each handler was given
    crows,   \* concurrent requests: the grid each handler read
    cout,    \* concurrent requests: the messages each handler sent
    seen,    \* where the other handlers stood at a handler's read, append or rewrite
    lastw,   \* the handler that changed the grid last
    telegram \* whether a post to TELEGRAM_API goes through: "up" or "down"

seqVars == <<last, rerun, telegram>>
concVars == <<pc, creq, crows, cout, seen, lastw>>
vars == <<sheet, now, last, rerun, pc, creq, crows, cout, seen, lastw, telegram>>

\* The handlers of requests in flight at the same time.
Procs == {"w1", "w2", "w3"}

\* The request handled last does not repeat the one before it.
NoRerun == [is |-> FALSE, before |-> <<>>, out |-> <<>>, fail |-> "none"]

\* AUTHORIZED_USER_ID, read from the environment
AUTHORIZED_USER_ID == 1

Users == {AUTHORIZED_USER_ID, AUTHORIZED_USER_ID + 1}

\* user_id of a request that faulted before or while the sender was read
NoUser == 0

\* Where a request that is not a well-formed update faults: "body" before
\* chat_id is bound (the body is not a JSON object, or message, text or chat
\* is of the wrong type), "from" after it (message["from"] is not an object).
Faults == {"body", "from"}

\* The message texts the requests of the model carry.
RawTexts == {
    \* "Help"
    <<"H","e","l","p">>,
    \* "show 7"
    <<"s","h","o","w"," ","7">>,
    \* "show A"
    <<"s","h","o","w"," ","A">>,
    \* "show"
    <<"s","h","o","w">>,
    \* "delete all 7"
    <<"d","e","l","e","t","e"," ","a","l","l"," ","7">>,
    \* "delete all A"
    <<"d","e","l","e","t","e"," ","a","l","l"," ","A">>,
    \* "delete 7 3 31-01-2026"
    <<"d","e","l","e","t","e"," ","7"," ","3"," ","3","1","-","0","1","-","2","0","2","6">>,
    \* "delete 7 5 31-01-2026"
    <<"d","e","l","e","t","e"," ","7"," ","5"," ","3","1","-","0","1","-","2","0","2","6">>,
    \* "delete A 5 31-01-2026"
    <<"d","e","l","e","t","e"," ","A"," ","5"," ","3","1","-","0","1","-","2","0","2","6">>,
    \* "delete 7 3"
    <<"d","e","l","e","t","e"," ","7"," ","3">>,
    \* "delete all"
    <<"d","e","l","e","t","e"," ","a","l","l">>,
    \* " 7 5"
    <<" ","7"," ","5">>,
    \* "7 3"
    <<"7"," ","3">>,
    \* "A 5"
    <<"A"," ","5">>,
    \* "7 3 31-01-2026"
    <<"7"," ","3"," ","3","1","-","0","1","-","2","0","2","6">>,
    \* "7 0"
    <<"7"," ","0">>,
    \* "7 x"
    <<"7"," ","x">>,
    \* "7 -5"
    <<"7"," ","-","5">>,
    \* "7 5 31-02-2026"
    <<"7"," ","5"," ","3","1","-","0","2","-","2","0","2","6">>,
    \* "7"
    <<"7">>,
    \* "hi"
    <<"h","i">>,
    \* "7 5 31-01-2026 x"
    <<"7"," ","5"," ","3","1","-","0","1","-","2","0","2","6"," ","x">>,
    \* " 130 "
    <<" ","1","3","0"," ">>,
    \* "Delete All 7 x"
    <<"D","e","l","e","t","e"," ","A","l","l"," ","7"," ","x">>,
    \* "delete Customer_id Amount Date"
    <<"d","e","l","e","t","e"," ","C","u","s","t","o","m","e","r","_","i","d"," ","A","m","o","u","n","t"," ","D","a","t","e">>
}

\* The texts of the messages other senders send: one for each branch.
StrangerTexts == {
    \* "Help"
    <<"H","e","l","p">>,
    \* "show 7"
    <<"s","h","o","w"," ","7">>,
    \* "delete all 7"
    <<"d","e","l","e","t","e"," ","a","l","l"," ","7">>,
    \* "delete 7 3 31-01-2026"
    <<"d","e","l","e","t","e"," ","7"," ","3"," ","3","1","-","0","1","-","2","0","2","6">>,
    \* "7 3"
    <<"7"," ","3">>,
    \* "7"
    <<"7">>,
    \* "hi"
    <<"h","i">>
}

\* Messages about customers whose ids differ in the case of a letter.
CaseTexts == {
    \* "Help"
    <<"H","e","l","p">>,
    \* "show A"
    <<"s","h","o","w"," ","A">>,
    \* "delete all A"
    <<"d","e","l","e","t","e"," ","a","l","l"," ","A">>,
    \* "delete all a"
    <<"d","e","l","e","t","e"," ","a","l","l"," ","a">>,
    \* "delete A 5 31-01-2026"
    <<"d","e","l","e","t","e"," ","A"," ","5"," ","3","1","-","0","1","-","2","0","2","6">>,
    \* "A 5"
    <<"A"," ","5">>,
    \* "a 5"
    <<"a"," ","5">>,
    \* "7"
    <<"7">>,
    \* "hi"
    <<"h","i">>
}

\* Saves that give a date: "7 5 <date>" for each of the date tokens.
DateTexts == {
    \* "7 5 31-01-2026"
    <<"7"," ","5"," ","3","1","-","0","1","-","2","0","2","6">>,
    \* "7 5 01-01-2026"
    <<"7"," ","5"," ","0","1","-","0","1","-","2","0","2","6">>,
    \* "7 5 1-1-2026"
    <<"7"," ","5"," ","1","-","1","-","2","0","2","6">>,
    \* "7 5 31-1-2026"
    <<"7"," ","5"," ","3","1","-","1","-","2","0","2","6">>,
    \* "7 5 29-02-2024"
    <<"7"," ","5"," ","2","9","-","0","2","-","2","0","2","4">>,
    \* "7 5 29-02-2026"
    <<"7"," ","5"," ","2","9","-","0","2","-","2","0","2","6">>,
    \* "7 5 31-02-2026"
    <<"7"," ","5"," ","3","1","-","0","2","-","2","0","2","6">>,
    \* "7 5 00-01-2026"
    <<"7"," ","5"," ","0","0","-","0","1","-","2","0","2","6">>,
    \* "7 5 31-13-2026"
    <<"7"," ","5"," ","3","1","-","1","3","-","2","0","2","6">>,
    \* "7 5 2026-01-31"
    <<"7"," ","5"," ","2","0","2","6","-","0","1","-","3","1">>,
    \* "7 5 31/01/2026"
    <<"7"," ","5"," ","3","1","/","0","1","/","2","0","2","6">>,
    \* "7 5 31-01-26"
    <<"7"," ","5"," ","3","1","-","0","1","-","2","6">>
}

\* The texts of the requests handled while the store and the messenger may
\* fail: one or two for each branch, and the empty text of a message
\* without a text.
FaultTexts == {
    \* "Help"
    <<"H","e","l","p">>,
    \* "show 7"
    <<"s","h","o","w"," ","7">>,
    \* "show"
    <<"s","h","o","w">>,
    \* "delete all 7"
    <<"d","e","l","e","t","e"," ","a","l","l"," ","7">>,
    \* "delete 7 3 31-01-2026"
    <<"d","e","l","e","t","e"," ","7"," ","3"," ","3","1","-","0","1","-","2","0","2","6">>,
    \* "delete 7 3"
    <<"d","e","l","e","t","e"," ","7"," ","3">>,
    \* "7 3"
    <<"7"," ","3">>,
    \* "7 x"
    <<"7"," ","x">>,
    \* "7"
    <<"7">>,
    \* "hi"
    <<"h","i">>,
    \* ""
    <<>>
}

\* Deletes that name the cells of the header row, among other commands.
HeaderTexts == {
    \* "Help"
    <<"H","e","l","p">>,
    \* "show 7"
    <<"s","h","o","w"," ","7">>,
    \* "delete all 7"
    <<"d","e","l","e","t","e"," ","a","l","l"," ","7">>,
    \* "delete all Customer_id"
    <<"d","e","l","e","t","e"," ","a","l","l"," ","C","u","s","t","o","m","e","r","_","i","d">>,
    \* "delete 7 3 31-01-2026"
    <<"d","e","l","e","t","e"," ","7"," ","3"," ","3","1","-","0","1","-","2","0","2","6">>,
    \* "delete Customer_id Amount Date"
    <<"d","e","l","e","t","e"," ","C","u","s","t","o","m","e","r","_","i","d"," ","A","m","o","u","n","t"," ","D","a","t","e">>,
    \* "delete customer_id Amount Date"
    <<"d","e","l","e","t","e"," ","c","u","s","t","o","m","e","r","_","i","d"," ","A","m","o","u","n","t"," ","D","a","t","e">>,
    \* "7 3"
    <<"7"," ","3">>,
    \* " 7 5"
    <<" ","7"," ","5">>,
    \* "7"
    <<"7">>,
    \* "hi"
    <<"h","i">>
}

AllTexts ==
    RawTexts \cup StrangerTexts \cup CaseTexts \cup DateTexts \cup FaultTexts \cup HeaderTexts

\* The stripped text of each message and the branch that handles it.
TextOf == [t \in AllTexts |-> Strip(t)]
BranchOf == [t \in AllTexts |-> Dispatch(TextOf[t])]
PartsOf == [t \in AllTexts |-> Split(TextOf[t])]

\* The store call that raises during a request, if any.
ShowFails == {"none", "read"}
DeleteFails == {"none", "read", "clear", "update"}
SaveFails == {"none", "append"}

Init ==
    /\ sheet = <<expected_headers>>
    /\ now = 0
    /\ last = [text |-> <<>>, user |-> AUTHORIZED_USER_ID, branch |-> "none",
               fail |-> "none", before |-> <<expected_headers>>, out |-> <<>>,
               status |-> "none", calls |-> <<>>]
    /\ rerun = NoRerun
    /\ pc = [p \in Procs |-> "idle"]
    /\ creq = [p \in Procs |-> <<>>]
    /\ crows = [p \in Procs |-> <<>>]
    /\ cout = [p \in Procs |-> <<>>]
    /\ seen = [p \in Procs |-> [q \in Procs |-> "idle"]]
    /\ lastw = "none"
    /\ telegram = "up"

\* send_message: the messages that reach the user.  A post that raises is
\* logged and nothing is sent.
Delivered(out) == IF telegram = "up" THEN out ELSE <<>>

\* The handler returns: the grid it leaves, the messages it sent, its status.
Return(t, u, branch, f, out, status, sh, calls) ==
    /\ sheet' = sh
    /\ last' = [text |-> t, user |-> u, branch |-> branch, fail |-> f,
                before |-> sheet, out |-> Delivered(out), status |-> status,
                calls |-> calls]
    /\ rerun' = IF t = last.text /\ u = last.user /\ last.branch # "none"
                THEN [is |-> TRUE, before |-> last.before, out |-> last.out,
                      fail |-> last.fail]
                ELSE NoRerun
    /\ UNCHANGED <<now, telegram, concVars>>

\* ------------------------------------------------------------------------
\* telegram_webhook, one request handled from start to end
\* ------------------------------------------------------------------------
\* Variant of the security check that answers the sender before returning.
UnauthorizedAnswered(u, t) ==
    /\ u # AUTHORIZED_USER_ID
    /\ Return(t, u, "ignored", "none", <<Msg("unknown")>>, "ignored", sheet, <<>>)

\* user_id != AUTHORIZED_USER_ID
Unauthorized(u, t) ==
    /\ u # AUTHORIZED_USER_ID
    /\ Return(t, u, "ignored", "none", <<>>, "ignored", sheet, <<>>)

Help(t) ==
    /\ BranchOf[t] = "help"
    /\ Return(t, AUTHORIZED_USER_ID, "help", "none", <<Msg("help")>>, "ok", sheet, <<>>)

\* Variant of the show branch below whose failed read is not caught in the
\* branch and reaches the outermost except.
ShowUncaught(t, f) ==
    LET text == TextOf[t]
        customer_id == ShowCustomerId(text)
    IN  /\ BranchOf[t] = "show"
        /\ IF customer_id = <<>>
           THEN /\ f = "none"
                /\ Return(t, AUTHORIZED_USER_ID, "show", f, <<Msg("show_usage")>>, "ok", sheet, <<>>)
           ELSE IF f = "read"
           THEN Return(t, AUTHORIZED_USER_ID, "show", f, <<Msg("server_error")>>, "error",
                       sheet, <<"get_all_records">>)
           ELSE Return(t, AUTHORIZED_USER_ID, "show", f,
                       ShowMessages(sheet, customer_id, f), "ok", sheet,
                       <<"get_all_records">>)

Show(t, f) ==
    LET text == TextOf[t]
        customer_id == ShowCustomerId(text)
    IN  /\ BranchOf[t] = "show"
        /\ IF customer_id = <<>>
           THEN /\ f = "none"
                /\ Return(t, AUTHORIZED_USER_ID, "show", f, <<Msg("show_usage")>>, "ok", sheet, <<>>)
           ELSE Return(t, AUTHORIZED_USER_ID, "show", f,
                       ShowMessages(sheet, customer_id, f), "ok", sheet,
                       <<"get_all_records">>)

DeleteAll(t, f) ==
    LET text == TextOf[t]
        customer_id == DeleteAllCustomerId(text)
        rows == GetAllValues(sheet)
        res == DeleteAllRows(rows, customer_id)
        error == <<Msg("delete_all_error")>>
        read == <<"get_all_values">>
        cleared == <<"get_all_values", "clear">>
        written == <<"get_all_values", "clear", "update">>
    IN  /\ BranchOf[t] = "delete_all"
        /\ IF customer_id = <<>>
           THEN /\ f = "none"
                /\ Return(t, AUTHORIZED_USER_ID, "delete_all", f,
                          <<Msg("delete_all_usage")>>, "ok", sheet, <<>>)
           ELSE IF f = "read"
           THEN Return(t, AUTHORIZED_USER_ID, "delete_all", f, error, "ok", sheet, read)
           ELSE IF Len(rows) = 0
           THEN /\ f = "none"
                /\ Return(t, AUTHORIZED_USER_ID, "delete_all", f,
                          <<Msg("sheet_empty")>>, "ok", sheet, read)
           ELSE IF f = "clear"
           THEN Return(t, AUTHORIZED_USER_ID, "delete_all", f, error, "ok", sheet, cleared)
           ELSE IF f = "update"
           THEN Return(t, AUTHORIZED_USER_ID, "delete_all", f, error, "ok", SheetClear(sheet), written)
           ELSE Return(t, AUTHORIZED_USER_ID, "delete_all", f,
                       <<[Msg("deleted_all") EXCEPT !.id = customer_id, !.n = res.deleted]>>,
                       "ok", SheetUpdate(SheetClear(sheet), res.new_rows), written)

DeleteOne(t, f) ==
    LET text == TextOf[t]
        parts == PartsOf[t]
        rows == GetAllValues(sheet)
        res == DeleteOneRows(rows, parts[2], parts[3], parts[4])
        error == <<Msg("delete_error")>>
        read == <<"get_all_values">>
        cleared == <<"get_all_values", "clear">>
        written == <<"get_all_values", "clear", "update">>
    IN  /\ BranchOf[t] = "delete"
        /\ IF Len(parts) # 4
           THEN /\ f = "none"
                /\ Return(t, AUTHORIZED_USER_ID, "delete", f, <<Msg("delete_usage")>>, "ok", sheet, <<>>)
           ELSE IF f = "read"
           THEN Return(t, AUTHORIZED_USER_ID, "delete", f, error, "ok", sheet, read)
           ELSE IF Len(rows) = 0
           THEN /\ f = "none"
                /\ Return(t, AUTHORIZED_USER_ID, "delete", f, <<Msg("sheet_empty")>>, "ok", sheet, read)
           ELSE IF f = "clear"
           THEN Return(t, AUTHORIZED_USER_ID, "delete", f, error, "ok", sheet, cleared)
           ELSE IF f = "update"
           THEN Return(t, AUTHORIZED_USER_ID, "delete", f, error, "ok", SheetClear(sheet), written)
           ELSE Return(t, AUTHORIZED_USER_ID, "delete", f,
                       <<IF res.deleted THEN Msg("entry_deleted") ELSE Msg("no_match")>>,
                       "ok", SheetUpdate(SheetClear(sheet), res.new_rows), written)

\* A single all-digit token
SingleNumber(t) ==
    /\ BranchOf[t] = "number"
    /\ Return(t, AUTHORIZED_USER_ID, "number", "none", <<Msg("invalid_format")>>, "ok", sheet, <<>>)

SaveData(t, f) ==
    LET text == TextOf[t]
        parts == PartsOf[t]
        date == SaveDate(parts, now)
        verdict == SaveValidation(parts[1], parts[2], date)
    IN  /\ BranchOf[t] = "save"
        /\ IF verdict # "ok"
           THEN /\ f = "none"
                /\ Return(t, AUTHORIZED_USER_ID, "save", f, <<Msg(verdict)>>, "ok", sheet, <<>>)
           ELSE IF f = "append"
           THEN Return(t, AUTHORIZED_USER_ID, "save", f, <<Msg("save_error")>>, "ok", sheet,
                       <<"append_row">>)
           ELSE /\ Len(sheet) < MaxRows
                /\ Return(t, AUTHORIZED_USER_ID, "save", f,
                          <<[Msg("saved") EXCEPT !.id = parts[1],
                                                 !.given = ToInt(parts[2]),
                                                 !.payments = <<date>>]>>,
                          "ok", SheetAppendRow(sheet, SaveRow(parts, now)), <<"append_row">>)

Unknown(t) ==
    /\ BranchOf[t] = "unknown"
    /\ Return(t, AUTHORIZED_USER_ID, "unknown", "none", <<Msg("unknown")>>, "ok", sheet, <<>>)

\* A request that is not a well-formed update: the outermost except.
Malformed(k) ==
    /\ k \in Faults
    /\ Return(<<>>, NoUser, "fault", k,
              IF k = "from" THEN <<Msg("server_error")>> ELSE <<>>,
              "error", sheet, <<>>)

\* The messenger goes down or comes back between two requests.
TelegramFlips ==
    /\ telegram' = IF telegram = "up" THEN "down" ELSE "up"
    /\ UNCHANGED <<sheet, now, last, rerun, concVars>>

\* Time passes between two requests.
Tick ==
    /\ now < MaxClock
    /\ now' = now + 1
    /\ UNCHANGED <<sheet, last, rerun, telegram, concVars>>

\* Requests handled one at a time, every store call succeeding.
Next ==
    \/ \E u \in Users, t \in StrangerTexts : Unauthorized(u, t)
    \/ \E t \in RawTexts : Help(t)
    \/ \E t \in RawTexts : Show(t, "none")
    \/ \E t \in RawTexts : DeleteAll(t, "none")
    \/ \E t \in RawTexts : DeleteOne(t, "none")
    \/ \E t \in RawTexts : SingleNumber(t)
    \/ \E t \in RawTexts : SaveData(t, "none")
    \/ \E t \in RawTexts : Unknown(t)
    \/ Tick

Spec == Init /\ [][Next]_vars

\* Requests handled one at a time, any store call of a request raising.
NextFail ==
    \/ \E u \in Users, t \in StrangerTexts : Unauthorized(u, t)
    \/ \E t \in RawTexts : Help(t)
    \/ \E t \in RawTexts, f \in ShowFails : Show(t, f)
    \/ \E t \in RawTexts, f \in DeleteFails : DeleteAll(t, f)
    \/ \E t \in RawTexts, f \in DeleteFails : DeleteOne(t, f)
    \/ \E t \in RawTexts : SingleNumber(t)
    \/ \E t \in RawTexts, f \in SaveFails : SaveData(t, f)
    \/ \E t \in RawTexts : Unknown(t)
    \/ Tick

SpecFail == Init /\ [][NextFail]_vars

\* Requests handled one at a time, every store call succeeding, about
\* customers whose ids differ in the case of a letter.
NextCase ==
    \/ \E u \in Users, t \in StrangerTexts : Unauthorized(u, t)
    \/ \E t \in CaseTexts : Help(t)
    \/ \E t \in CaseTexts : Show(t, "none")
    \/ \E t \in CaseTexts : DeleteAll(t, "none")
    \/ \E t \in CaseTexts : DeleteOne(t, "none")
    \/ \E t \in CaseTexts : SingleNumber(t)
    \/ \E t \in CaseTexts : SaveData(t, "none")
    \/ \E t \in CaseTexts : Unknown(t)
    \/ Tick

SpecCase == Init /\ [][NextCase]_vars

\* Requests handled one at a time: any store call may raise, any post to
\* the messenger may raise, any request may be malformed.
NextFault ==
    \/ \E u \in Users, t \in StrangerTexts : Unauthorized(u, t)
    \/ \E t \in FaultTexts : Help(t)
    \/ \E t \in FaultTexts, f \in ShowFails : Show(t, f)
    \/ \E t \in FaultTexts, f \in DeleteFails : DeleteAll(t, f)
    \/ \E t \in FaultTexts, f \in DeleteFails : DeleteOne(t, f)
    \/ \E t \in FaultTexts : SingleNumber(t)
    \/ \E t \in FaultTexts, f \in SaveFails : SaveData(t, f)
    \/ \E t \in FaultTexts : Unknown(t)
    \/ \E k \in Faults : Malformed(k)
    \/ TelegramFlips
    \/ Tick

SpecFault == Init /\ [][NextFault]_vars

\* The header rows the show branch can read the customer id under.
HeaderRows == {
    expected_headers,
    <<STR_customer_id, STR_Amount, STR_Date, STR_Timestamp>>
}

\* A worksheet that holds one of these header rows and no data row.
InitHeader ==
    /\ sheet \in {<<h>> : h \in HeaderRows}
    /\ now = 0
    /\ last = [text |-> <<>>, user |-> AUTHORIZED_USER_ID, branch |-> "none",
               fail |-> "none", before |-> sheet, out |-> <<>>,
               status |-> "none", calls |-> <<>>]
    /\ rerun = NoRerun
    /\ pc = [p \in Procs |-> "idle"]
    /\ creq = [p \in Procs |-> <<>>]
    /\ crows = [p \in Procs |-> <<>>]
    /\ cout = [p \in Procs |-> <<>>]
    /\ seen = [p \in Procs |-> [q \in Procs |-> "idle"]]
    /\ lastw = "none"
    /\ telegram = "up"

\* Requests handled one at a time, every store call succeeding, with
\* deletes that name the cells of the header row.
NextHeader ==
    \/ \E u \in Users, t \in StrangerTexts : Unauthorized(u, t)
    \/ \E t \in HeaderTexts : Help(t)
    \/ \E t \in HeaderTexts : Show(t, "none")
    \/ \E t \in HeaderTexts : DeleteAll(t, "none")
    \/ \E t \in HeaderTexts : DeleteOne(t, "none")
    \/ \E t \in HeaderTexts : SingleNumber(t)
    \/ \E t \in HeaderTexts : SaveData(t, "none")
    \/ \E t \in HeaderTexts : Unknown(t)
    \/ Tick

SpecHeader == InitHeader /\ [][NextHeader]_vars

\* Saves that give a date, handled one at a time.
NextDate ==
    \/ \E t \in DateTexts : SaveData(t, "none")
    \/ Tick

SpecDate == Init /\ [][NextDate]_vars

\* ------------------------------------------------------------------------
\* Vocabulary of the properties
\* ------------------------------------------------------------------------
\* The rows under the header row.
DataRows(sh) == IF sh = <<>> THEN <<>> ELSE Tail(sh)

\* The rows of one customer, in store order; the id compared as a str.
RowsOf(sh, id) == SelectSeq(DataRows(sh), LAMBDA r : r[1] = id)

\* The rows of the other customers, in store order.
RowsNotOf(sh, id) == SelectSeq(DataRows(sh), LAMBDA r : r[1] # id)

\* The rows whose (id, amount, date) is the triple, in store order.
RowsMatching(sh, id, amount, date) ==
    SelectSeq(DataRows(sh), LAMBDA r : r[1] = id /\ r[2] = amount /\ r[3] = date)

RECURSIVE SumOfAmounts(_)
SumOfAmounts(rs) == IF rs = <<>> THEN 0 ELSE ToInt(Head(rs)[2]) + SumOfAmounts(Tail(rs))

\* The kind of the last message a request sent, "" when it sent none.
ReplyKind(req) == IF req.out = <<>> THEN "" ELSE req.out[Len(req.out)].kind
Reply(req) == req.out[Len(req.out)]

Handled(req) == req.branch # "none" /\ req.user = AUTHORIZED_USER_ID

\* The request is a Save that appended its row and said so.
IsSaved(req) == Handled(req) /\ req.branch = "save" /\ ReplyKind(req) = "saved"

\* The request is "show <id>" for this id.
IsShowOf(req, id) ==
    /\ Handled(req) /\ req.branch = "show"
    /\ Len(PartsOf[req.text]) = 2 /\ PartsOf[req.text][2] = id

\* The request is "delete all <id>" for this id.
IsDeleteAllOf(req, id) ==
    /\ Handled(req) /\ req.branch = "delete_all"
    /\ Len(PartsOf[req.text]) = 3 /\ PartsOf[req.text][3] = id

\* The request is "delete <id> <amount> <date>".
IsDeleteOne(req) == Handled(req) /\ req.branch = "delete" /\ Len(PartsOf[req.text]) = 4

\* ------------------------------------------------------------------------
\* C1: a successful Save of (id, amount, date) into a store that holds no
\* row of that id, followed by Show of the same id, reports a summary whose
\* total_given is the saved amount.
\* ------------------------------------------------------------------------
C1_SaveThenShow ==
    [][ (/\ IsSaved(last)
         /\ RowsOf(last.before, PartsOf[last.text][1]) = <<>>
         /\ IsShowOf(last', PartsOf[last.text][1]))
        => (/\ ReplyKind(last') = "summary"
            /\ Reply(last').given = ToInt(PartsOf[last.text][2])) ]_vars

\* ------------------------------------------------------------------------
\* C2: when Show finds rows of the id, total_given is the amount of the
\* first of them in store order, total_paid the sum of the others and
\* balance their difference, whatever the recorded timestamps are.
\* ------------------------------------------------------------------------
C2_ShowTotalsInStoreOrder ==
    (Handled(last) /\ last.branch = "show" /\ ReplyKind(last) = "summary")
    => LET rows == RowsOf(last.before, PartsOf[last.text][2])
       IN  /\ rows # <<>>
           /\ Reply(last).given = ToInt(rows[1][2])
           /\ Reply(last).paid = SumOfAmounts(Tail(rows))
           /\ Reply(last).bal = ToInt(rows[1][2]) - SumOfAmounts(Tail(rows))

\* ------------------------------------------------------------------------
\* C3: DeleteOne removes at most one row per call, and a second identical
\* DeleteOne reports not-found and removes nothing.
\* ------------------------------------------------------------------------
\* The rows of a request's store before it, matching its delete triple.
DeleteTargets(req, sh) ==
    RowsMatching(sh, PartsOf[req.text][2], PartsOf[req.text][3], PartsOf[req.text][4])

\* The reply says nothing matched.
SaysNotFound(req) == ReplyKind(req) \in {"no_match", "sheet_empty"}

RemovesAtMostOne(req, sh) ==
    /\ Len(req.before) - Len(sh) \in {0, 1}
    /\ \E k \in 1..(Len(req.before) + 1) :
          \/ k = Len(req.before) + 1 /\ sh = req.before
          \/ k <= Len(req.before)
             /\ sh = SubSeq(req.before, 1, k - 1) \o SubSeq(req.before, k + 1, Len(req.before))

\* The claim as stated: the second identical call never finds a row.
C3_SecondDeleteFindsNothing ==
    (IsDeleteOne(last) /\ rerun.is)
    => (SaysNotFound(last) /\ sheet = last.before)

\* C3 as amended: at most one row goes per call; the second identical call
\* reports not-found and removes nothing when the store held at most one
\* matching row before the first call, and otherwise removes one more
\* matching row and reports success.
C3_SecondDeleteAmended ==
    IsDeleteOne(last)
    => /\ RemovesAtMostOne(last, sheet)
       /\ rerun.is =>
            IF Len(DeleteTargets(last, rerun.before)) <= 1
            THEN SaysNotFound(last) /\ sheet = last.before
            ELSE /\ ReplyKind(last) = "entry_deleted"
                 /\ Len(sheet) = Len(last.before) - 1
                 /\ Len(DeleteTargets(last, sheet)) = Len(DeleteTargets(last, rerun.before)) - 2

\* A first DeleteOne removed the only matching row and an identical second
\* one has answered that nothing matched.
C3_Witness ==
    /\ IsDeleteOne(last) /\ rerun.is
    /\ Len(DeleteTargets(last, rerun.before)) = 1
    /\ rerun.out[1].kind = "entry_deleted"
    /\ ReplyKind(last) = "no_match"
    /\ sheet = last.before

\* ------------------------------------------------------------------------
\* C4: DeleteAll(id) immediately followed by Show(id) yields the reply
\* "No records found for customer", never a summary or an error reply.
\* ------------------------------------------------------------------------
C4_DeleteAllThenShow ==
    [][ (/\ Handled(last) /\ last.branch = "delete_all"
         /\ ReplyKind(last) = "deleted_all"
         /\ IsShowOf(last', PartsOf[last.text][3]))
        => ReplyKind(last') = "not_found" ]_vars

\* ------------------------------------------------------------------------
\* C5: after a DeleteAll(id) that completes, no row of that id (as given in
\* the command) is left, the rows of the other customers are left in their
\* order, and the count reported is the number of rows removed.
\* ------------------------------------------------------------------------
C5_DeleteAllRemovesCustomer ==
    (Handled(last) /\ last.branch = "delete_all" /\ ReplyKind(last) = "deleted_all")
    => LET id == PartsOf[last.text][3]
       IN  /\ RowsOf(sheet, id) = <<>>
           /\ RowsNotOf(sheet, id) = RowsNotOf(last.before, id)
           /\ Reply(last).n = Len(last.before) - Len(sheet)

\* ------------------------------------------------------------------------
\* C8: when a store call of a DeleteOne or DeleteAll raises, the rows of
\* the store after the command are the rows before it, and the user is
\* sent a failure reply.
\* ------------------------------------------------------------------------
C8_FailedDeleteLeavesStore ==
    (Handled(last) /\ last.branch \in {"delete", "delete_all"} /\ last.fail # "none")
    => /\ sheet = last.before
       /\ ReplyKind(last) \in {"delete_error", "delete_all_error"}

\* ------------------------------------------------------------------------
\* C9: a command that fails validation changes no row of the store and is
\* answered with a reply naming the problem.
\* ------------------------------------------------------------------------
\* The first token of the line, lower-cased; "" for an empty line.
Keyword(t) == IF PartsOf[t] = <<>> THEN <<>> ELSE Lower(PartsOf[t][1])

STR_delete == <<"d","e","l","e","t","e">>
STR_all == <<"a","l","l">>

\* A line of two or three tokens that is no help, show or delete line.
SaveShaped(t) ==
    /\ Len(PartsOf[t]) \in {2, 3}
    /\ Keyword(t) \notin {STR_show, STR_delete}

\* Save with an amount that is 0, negative or not a number
SaveBadAmount(t) ==
    /\ SaveShaped(t)
    /\ ~IsDigit(PartsOf[t][2]) \/ ToInt(PartsOf[t][2]) = 0

\* Save with a date that does not parse
SaveBadDate(t) ==
    /\ SaveShaped(t) /\ ~SaveBadAmount(t)
    /\ Len(PartsOf[t]) = 3 /\ ~StrptimeOk(PartsOf[t][3])

\* "delete all" with no id
DeleteAllNoId(t) == PartsOf[t] = <<STR_delete, STR_all>>

\* "delete ..." with a token count other than 4 that is no "delete all <id>"
DeleteBadCount(t) ==
    /\ Keyword(t) = STR_delete
    /\ Len(PartsOf[t]) # 4
    /\ ~(Len(PartsOf[t]) >= 3 /\ Lower(PartsOf[t][2]) = STR_all)
    /\ ~DeleteAllNoId(t)

\* "show" with no id
ShowNoId(t) == Len(PartsOf[t]) = 1 /\ Keyword(t) = STR_show

\* A line of a wrong token count that is no help, show or delete line
WrongTokenCount(t) ==
    /\ Len(PartsOf[t]) \notin {2, 3}
    /\ Keyword(t) \notin {STR_show, STR_delete}
    /\ Lower(TextOf[t]) \notin HelpWords

\* The replies that name the problem of an invalid line.
ExpectedReplies(t) ==
    IF SaveBadAmount(t) THEN {"amount_nan", "amount_nonpos"}
    ELSE IF SaveBadDate(t) THEN {"bad_date"}
    ELSE IF DeleteAllNoId(t) THEN {"delete_all_usage", "delete_usage"}
    ELSE IF DeleteBadCount(t) THEN {"delete_usage"}
    ELSE IF ShowNoId(t) THEN {"show_usage"}
    ELSE IF WrongTokenCount(t) THEN {"invalid_format", "unknown"}
    ELSE {}

FailsValidation(t) == ExpectedReplies(t) # {}

C9_InvalidCommandLeavesStore ==
    (Handled(last) /\ FailsValidation(last.text))
    => /\ sheet = last.before
       /\ Len(sheet) = Len(last.before)
       /\ Len(last.out) = 1
       /\ ReplyKind(last) \in ExpectedReplies(last.text)

\* A Save of amount 0 was refused on a store that holds rows.
C9_Witness ==
    /\ Handled(last) /\ SaveBadAmount(last.text)
    /\ IsDigit(PartsOf[last.text][2]) /\ ToInt(PartsOf[last.text][2]) = 0
    /\ ReplyKind(last) = "amount_nonpos"
    /\ Len(last.before) > 1
    /\ sheet = last.before

\* ------------------------------------------------------------------------
\* C10: a Show of an id with no row, and a DeleteOne of a triple matching no
\* row, are answered that nothing matched and leave the store as it was,
\* also on a store with no data row.
\* ------------------------------------------------------------------------
C10_MissingTargetNotFound ==
    /\ (Handled(last) /\ last.branch = "show" /\ Len(PartsOf[last.text]) = 2
        /\ RowsOf(last.before, PartsOf[last.text][2]) = <<>>)
       => (ReplyKind(last) = "not_found" /\ sheet = last.before)
    /\ (IsDeleteOne(last) /\ DeleteTargets(last, last.before) = <<>>)
       => (SaysNotFound(last) /\ sheet = last.before)

\* ------------------------------------------------------------------------
\* telegram_webhook, requests handled at the same time: one step per store
\* call, the steps of different handlers interleaved
\* ------------------------------------------------------------------------
\* The texts of the requests in flight: those whose branch calls the store.
ConcTexts == <<
    \* "show 7"
    <<"s","h","o","w"," ","7">>,
    \* "delete all 7"
    <<"d","e","l","e","t","e"," ","a","l","l"," ","7">>,
    \* "delete 7 3 31-01-2026"
    <<"d","e","l","e","t","e"," ","7"," ","3"," ","3","1","-","0","1","-","2","0","2","6">>,
    \* "delete A 5 31-01-2026"
    <<"d","e","l","e","t","e"," ","A"," ","5"," ","3","1","-","0","1","-","2","0","2","6">>,
    \* " 7 5"
    <<" ","7"," ","5">>
>>

\* The rows a Save of the model appends at clock reading 0.
SavableRows ==
    {SaveRow(PartsOf[t], 0) : t \in {x \in RawTexts :
        /\ BranchOf[x] = "save"
        /\ SaveValidation(PartsOf[x][1], PartsOf[x][2], SaveDate(PartsOf[x], 0)) = "ok"}}

\* The grids Saves alone leave: the header row and rows under it.
ConcSheets ==
    UNION {{<<expected_headers>> \o rs : rs \in [1..n -> SavableRows]} : n \in 0..(MaxRows - 1)}

InitConc ==
    /\ sheet \in ConcSheets
    /\ now = 0
    /\ last = [text |-> <<>>, user |-> AUTHORIZED_USER_ID, branch |-> "none",
               fail |-> "none", before |-> <<expected_headers>>, out |-> <<>>,
               status |-> "none", calls |-> <<>>]
    /\ rerun = NoRerun
    /\ pc = [p \in Procs |-> "idle"]
    /\ creq = [p \in Procs |-> <<>>]
    /\ crows = [p \in Procs |-> <<>>]
    /\ cout = [p \in Procs |-> <<>>]
    /\ seen = [p \in Procs |-> [q \in Procs |-> "idle"]]
    /\ lastw = "none"
    /\ telegram = "up"

\* Handlers are alike and a request touches only its own handler until its
\* first store call, so requests are taken by w1, w2, w3 in this order and
\* in the order of ConcTexts.
ProcOrder == <<"w1", "w2", "w3">>
ProcIndex(p) == CHOOSE i \in 1..Len(ProcOrder) : ProcOrder[i] = p
TextIndex(t) == CHOOSE i \in 1..Len(ConcTexts) : ConcTexts[i] = t

\* The first store call of the branch that handles t.
FirstCall(t) ==
    IF BranchOf[t] = "show" /\ ShowCustomerId(TextOf[t]) # <<>> THEN "show"
    ELSE IF BranchOf[t] = "delete_all" /\ DeleteAllCustomerId(TextOf[t]) # <<>> THEN "del_read"
    ELSE IF BranchOf[t] = "delete" /\ Len(PartsOf[t]) = 4 THEN "del_read"
    ELSE IF BranchOf[t] = "save"
            /\ SaveValidation(PartsOf[t][1], PartsOf[t][2], SaveDate(PartsOf[t], now)) = "ok"
         THEN "save"
    ELSE "done"

\* The request reaches the first store call of its branch.
CReceive(p, i) ==
    /\ pc[p] = "idle"
    /\ \A q \in Procs : ProcIndex(q) < ProcIndex(p) =>
           (pc[q] # "idle" /\ TextIndex(creq[q]) <= i)
    /\ FirstCall(ConcTexts[i]) # "done"
    /\ pc' = [pc EXCEPT ![p] = FirstCall(ConcTexts[i])]
    /\ creq' = [creq EXCEPT ![p] = ConcTexts[i]]
    /\ UNCHANGED <<sheet, now, seqVars, crows, cout, seen, lastw>>

\* records = sheet.get_all_records() and the rest of the show branch
CShow(p) ==
    /\ pc[p] = "show"
    /\ crows' = [crows EXCEPT ![p] = GetAllValues(sheet)]
    /\ cout' = [cout EXCEPT ![p] =
                   ShowMessages(sheet, ShowCustomerId(TextOf[creq[p]]), "none")]
    /\ seen' = [seen EXCEPT ![p] = pc]
    /\ pc' = [pc EXCEPT ![p] = "done"]
    /\ UNCHANGED <<sheet, now, seqVars, creq, lastw>>

\* rows = sheet.get_all_values() of either delete branch
CDeleteRead(p) ==
    /\ pc[p] = "del_read"
    /\ crows' = [crows EXCEPT ![p] = GetAllValues(sheet)]
    /\ IF Len(GetAllValues(sheet)) = 0
       THEN /\ pc' = [pc EXCEPT ![p] = "done"]
            /\ cout' = [cout EXCEPT ![p] = <<Msg("sheet_empty")>>]
       ELSE /\ pc' = [pc EXCEPT ![p] = "del_clear"]
            /\ UNCHANGED cout
    /\ UNCHANGED <<sheet, now, seqVars, creq, seen, lastw>>

\* new_rows and the reply of the delete branch handler p is in
CDeleteResult(p) ==
    LET parts == PartsOf[creq[p]]
    IN  IF BranchOf[creq[p]] = "delete_all"
        THEN LET res == DeleteAllRows(crows[p], DeleteAllCustomerId(TextOf[creq[p]]))
             IN  [new_rows |-> res.new_rows,
                  out |-> <<[Msg("deleted_all") EXCEPT
                               !.id = DeleteAllCustomerId(TextOf[creq[p]]),
                               !.n = res.deleted]>>]
        ELSE LET res == DeleteOneRows(crows[p], parts[2], parts[3], parts[4])
             IN  [new_rows |-> res.new_rows,
                  out |-> <<IF res.deleted THEN Msg("entry_deleted") ELSE Msg("no_match")>>]

\* sheet.clear()
CDeleteClear(p) ==
    /\ pc[p] = "del_clear"
    /\ sheet' = SheetClear(sheet)
    /\ pc' = [pc EXCEPT ![p] = "del_update"]
    /\ lastw' = p
    /\ UNCHANGED <<now, seqVars, creq, crows, cout, seen>>

\* sheet.update(new_rows) and the reply
CDeleteUpdate(p) ==
    /\ pc[p] = "del_update"
    /\ sheet' = SheetUpdate(sheet, CDeleteResult(p).new_rows)
    /\ cout' = [cout EXCEPT ![p] = CDeleteResult(p).out]
    /\ seen' = [seen EXCEPT ![p] = pc]
    /\ pc' = [pc EXCEPT ![p] = "done"]
    /\ lastw' = p
    /\ UNCHANGED <<now, seqVars, creq, crows>>

\* sheet.append_row(...) and the reply
CSave(p) ==
    LET parts == PartsOf[creq[p]]
    IN  /\ pc[p] = "save"
        /\ sheet' = SheetAppendRow(sheet, SaveRow(parts, now))
        /\ cout' = [cout EXCEPT ![p] =
                       <<[Msg("saved") EXCEPT !.id = parts[1],
                                              !.given = ToInt(parts[2]),
                                              !.payments = <<SaveDate(parts, now)>>]>>]
        /\ seen' = [seen EXCEPT ![p] = pc]
        /\ pc' = [pc EXCEPT ![p] = "done"]
        /\ lastw' = p
        /\ UNCHANGED <<now, seqVars, creq, crows>>

NextConc ==
    \/ \E p \in Procs, i \in 1..Len(ConcTexts) : CReceive(p, i)
    \/ \E p \in Procs : CShow(p)
    \/ \E p \in Procs : CDeleteRead(p)
    \/ \E p \in Procs : CDeleteClear(p)
    \/ \E p \in Procs : CDeleteUpdate(p)
    \/ \E p \in Procs : CSave(p)

SpecConc == InitConc /\ [][NextConc]_vars

\* ------------------------------------------------------------------------
\* Vocabulary of the properties of concurrent requests
\* ------------------------------------------------------------------------
\* The branch handler p is in, "none" while it has no request.
CBranch(p) == IF pc[p] = "idle" THEN "none" ELSE BranchOf[creq[p]]

IsCShow(p) == pc[p] = "done" /\ CBranch(p) = "show"

\* Handler p ran a delete to its end: it read, cleared and rewrote the grid.
IsCDelete(p) ==
    /\ pc[p] = "done" /\ CBranch(p) \in {"delete", "delete_all"}
    /\ crows[p] # <<>>

\* Handler p ran a Save to its end and replied success.
IsCSaved(p) ==
    /\ pc[p] = "done" /\ CBranch(p) = "save"
    /\ cout[p] # <<>> /\ cout[p][1].kind = "saved"

\* Handler q had read the grid and not yet finished rewriting it.
MidDelete == {"del_clear", "del_update"}

\* The row the Save of handler p appended.
SavedRow(p) == SaveRow(PartsOf[creq[p]], now)

\* The row of the grid sh at index k is a target of the delete of handler q.
IsTarget(q, sh, k) ==
    LET parts == PartsOf[creq[q]]
    IN  IF CBranch(q) = "delete_all"
        THEN sh[k][1] = parts[3]
        ELSE /\ sh[k][1] = parts[2] /\ sh[k][2] = parts[3] /\ sh[k][3] = parts[4]
             /\ \A j \in 2..(k - 1) :
                   ~(sh[j][1] = parts[2] /\ sh[j][2] = parts[3] /\ sh[j][3] = parts[4])

\* The grid handler q read, without the rows its delete is to remove.
SnapshotMinusTargets(q) ==
    LET keep == {k \in 1..Len(crows[q]) : k = 1 \/ ~IsTarget(q, crows[q], k)}
        F[k \in 0..Len(crows[q])] ==
            IF k = 0 THEN <<>>
            ELSE IF k \in keep THEN Append(F[k - 1], crows[q][k]) ELSE F[k - 1]
    IN  F[Len(crows[q])]

InSheet(r) == \E k \in 1..Len(sheet) : sheet[k] = r

\* ------------------------------------------------------------------------
\* C6: a Show that reads the grid while a delete is between its clear and
\* its rewrite sees the whole table as the delete read it or the whole
\* table as the delete writes it, never an empty or partial one.
\* ------------------------------------------------------------------------
C6_ReaderSeesWholeTable ==
    \A p \in Procs, q \in Procs :
        (/\ p # q /\ IsCShow(p)
         /\ CBranch(q) \in {"delete", "delete_all"}
         /\ seen[p][q] = "del_update")
        => crows[p] \in {crows[q], SnapshotMinusTargets(q)}

\* ------------------------------------------------------------------------
\* C7: a delete writes back the grid it read without its targets, whatever
\* happened to the grid in between: when a delete has just finished, the
\* grid starts with those rows and holds below them only rows that another
\* request appended or wrote after its clear.  So a Save that appended between the delete's read and
\* its clear is lost, and a row another delete removed in between is back.
\* ------------------------------------------------------------------------
C7_DeleteWritesBackWhatItRead ==
    \A q \in Procs :
        (IsCDelete(q) /\ lastw = q)
        => LET e == SnapshotMinusTargets(q)
           IN  /\ Len(sheet) >= Len(e)
               /\ SubSeq(sheet, 1, Len(e)) = e
               /\ \A k \in (Len(e) + 1)..Len(sheet) :
                     \E p \in Procs \ {q} :
                        /\ seen[p][q] = "del_update"
                        /\ IF IsCSaved(p) THEN sheet[k] = SavedRow(p)
                           ELSE /\ IsCDelete(p)
                                /\ k <= Len(SnapshotMinusTargets(p))
                                /\ sheet[k] = SnapshotMinusTargets(p)[k]

\* Three requests have run: a Save replied success after delete q1 had read
\* and before it rewrote, and its row is in no row of the grid; delete q1
\* removed a row before delete q2, which had read it, rewrote, and that row
\* is in the grid again.
C7_Witness ==
    \E p \in Procs, q1 \in Procs, q2 \in Procs :
        /\ p # q1 /\ p # q2 /\ q1 # q2
        /\ IsCSaved(p) /\ IsCDelete(q1) /\ IsCDelete(q2)
        /\ seen[p][q1] \in MidDelete
        /\ ~InSheet(SavedRow(p))
        /\ seen[q1][q2] \in MidDelete
        /\ lastw = q2
        /\ \E k \in 2..Len(crows[q1]) :
              /\ IsTarget(q1, crows[q1], k)
              /\ \A j \in 1..Len(SnapshotMinusTargets(q1)) :
                    SnapshotMinusTargets(q1)[j] # crows[q1][k]
              /\ InSheet(crows[q1][k])

\* ------------------------------------------------------------------------
\* C11: a message whose sender is not the authorized user causes no store
\* call (no read, append, clear or rewrite), no outbound message and the
\* status "ignored", whatever its text; the grid is left as it was.
\* ------------------------------------------------------------------------
FromStranger(req) ==
    req.branch # "none" /\ req.user \in Users /\ req.user # AUTHORIZED_USER_ID

C11_StrangerIgnored ==
    FromStranger(last)
    => /\ last.calls = <<>>
       /\ last.out = <<>>
       /\ last.status = "ignored"
       /\ sheet = last.before

\* A stranger sent a line that deletes rows when the authorized user sends
\* it, the store holding a row the line names.
C11_Witness ==
    /\ FromStranger(last)
    /\ BranchOf[last.text] = "delete_all"
    /\ Len(PartsOf[last.text]) = 3
    /\ RowsOf(sheet, PartsOf[last.text][3]) # <<>>
    /\ last.status = "ignored"

\* ------------------------------------------------------------------------
\* C12: with commands run one at a time, a successful Save appends exactly
\* one row (trimmed id, integer amount, date, current timestamp) at the end
\* and leaves every existing row as it was; a DeleteOne removes at most one
\* row; a DeleteAll removes only rows of the customer it names; every
\* other command leaves the grid as it was.
\* ------------------------------------------------------------------------
\* The id a "delete all" line names: what follows the keyword, as typed.
NamedId(req) ==
    Strip(SubSeq(TextOf[req.text], Len(STR_delete_all) + 1, Len(TextOf[req.text])))

\* The row a Save is to append at clock t.
RowToSave(req, t) ==
    LET parts == PartsOf[req.text]
    IN  <<parts[1], IntToStr(ToInt(parts[2])),
          IF Len(parts) = 3 THEN parts[3] ELSE FormatDate(DateTimeAt(t)),
          FormatDateTime(DateTimeAt(t))>>

RowsChangeAsSaid(req, sh, t) ==
    IF IsSaved(req) THEN sh = Append(req.before, RowToSave(req, t))
    ELSE IF IsDeleteOne(req) THEN RemovesAtMostOne(req, sh)
    ELSE IF Handled(req) /\ req.branch = "delete_all" /\ ReplyKind(req) = "deleted_all"
    THEN /\ sh # <<>> /\ sh[1] = req.before[1]
         /\ RowsNotOf(sh, NamedId(req)) = RowsNotOf(req.before, NamedId(req))
         /\ Len(sh) <= Len(req.before)
    ELSE sh = req.before

C12_RowsChangeOnlyByCommand ==
    [][ last' # last => RowsChangeAsSaid(last', sheet', now) ]_vars

\* ------------------------------------------------------------------------
\* C13: Save accepts a supplied date only if it is a date of the calendar
\* written day-month-year with a two-digit day, a two-digit month and a
\* four-digit year; with any other date token no row is appended.
\* ------------------------------------------------------------------------
\* dd-mm-yyyy, every other character a digit, naming a date that exists.
PaddedCalendarDate(d) ==
    /\ Len(d) = 10
    /\ d[3] = "-" /\ d[6] = "-"
    /\ \A i \in {1, 2, 4, 5, 7, 8, 9, 10} : IsDigitChar(d[i])
    /\ LET day == ToInt(SubSeq(d, 1, 2))
           month == ToInt(SubSeq(d, 4, 5))
           year == ToInt(SubSeq(d, 7, 10))
       IN  /\ year >= 1
           /\ month \in 1..12
           /\ day \in 1..DaysInMonth(month, year)

\* The request is a Save line of three tokens.
SaveWithDate(req) ==
    Handled(req) /\ req.branch = "save" /\ Len(PartsOf[req.text]) = 3

C13_OnlyPaddedDatesSaved ==
    (SaveWithDate(last) /\ ~PaddedCalendarDate(PartsOf[last.text][3]))
    => (~IsSaved(last) /\ sheet = last.before)

\* ------------------------------------------------------------------------
\* C14: when rows match the (id, amount, date) of a DeleteOne exactly as
\* strings, the row removed is the first match in store order and only that
\* one; every other row, later duplicates included, stays where it was
\* relative to the others.
\* ------------------------------------------------------------------------
\* The row of the grid at index k has the triple of the request.
MatchesAt(req, sh, k) ==
    /\ sh[k][1] = PartsOf[req.text][2]
    /\ sh[k][2] = PartsOf[req.text][3]
    /\ sh[k][3] = PartsOf[req.text][4]

\* The index of the first data row that has the triple of the request.
FirstMatch(req, sh) ==
    CHOOSE k \in 2..Len(sh) :
        MatchesAt(req, sh, k) /\ \A j \in 2..(k - 1) : ~MatchesAt(req, sh, j)

\* The grid without its row at index k.
WithoutRow(sh, k) == SubSeq(sh, 1, k - 1) \o SubSeq(sh, k + 1, Len(sh))

C14_FirstMatchRemoved ==
    (IsDeleteOne(last) /\ DeleteTargets(last, last.before) # <<>>)
    => /\ sheet = WithoutRow(last.before, FirstMatch(last, last.before))
       /\ ReplyKind(last) = "entry_deleted"

\* A DeleteOne found two rows with its triple that differ in their
\* timestamps; the later one is the row left in the store.
C14_Witness ==
    /\ IsDeleteOne(last)
    /\ Len(DeleteTargets(last, last.before)) = 2
    /\ DeleteTargets(last, last.before)[1] # DeleteTargets(last, last.before)[2]
    /\ DeleteTargets(last, sheet) = <<DeleteTargets(last, last.before)[2]>>
    /\ ReplyKind(last) = "entry_deleted"

\* ------------------------------------------------------------------------
\* C15: a line that starts, whatever the case of its letters, with
\* "delete all " and an id is answered as a DeleteAll, never as a DeleteOne
\* or a Save, also when it has exactly four tokens; a line that starts with
\* "delete " and is not of that form is answered as a DeleteOne or with the
\* usage text of DeleteOne, never as a Save.
\* ------------------------------------------------------------------------
\* The stripped line in lower case.
LowerOf == [t \in AllTexts |-> Lower(TextOf[t])]

DeleteAllShaped(req) ==
    /\ StartsWith(LowerOf[req.text], STR_delete \o <<" ">> \o STR_all \o <<" ">>)
    /\ Len(LowerOf[req.text]) > Len(STR_delete) + Len(STR_all) + 2

DeleteShaped(req) ==
    StartsWith(LowerOf[req.text], STR_delete \o <<" ">>) /\ ~DeleteAllShaped(req)

DeleteAllReplies == {"deleted_all", "sheet_empty", "delete_all_error"}
DeleteOneReplies == {"entry_deleted", "no_match", "sheet_empty", "delete_error", "delete_usage"}

C15_DeleteAllBeforeDelete ==
    Handled(last)
    => /\ DeleteAllShaped(last)
          => /\ ReplyKind(last) \in DeleteAllReplies
             /\ last.calls # <<>> /\ last.calls[1] = "get_all_values"
             /\ sheet # <<>> /\ sheet[1] = last.before[1]
       /\ DeleteShaped(last)
          => /\ ReplyKind(last) \in DeleteOneReplies
             /\ RemovesAtMostOne(last, sheet)
             /\ Len(PartsOf[last.text]) # 4
                => (ReplyKind(last) = "delete_usage" /\ last.calls = <<>>)

\* A line of four tokens that starts with "Delete All " was answered as a
\* DeleteAll, the store holding data rows.
C15_Witness ==
    /\ Handled(last)
    /\ DeleteAllShaped(last)
    /\ Len(PartsOf[last.text]) = 4
    /\ TextOf[last.text] # LowerOf[last.text]
    /\ ReplyKind(last) = "deleted_all"
    /\ DataRows(sheet) # <<>>

\* ------------------------------------------------------------------------
\* C16: a line that is a single token of digits is answered with the
\* invalid-format reply of Save, not with the unknown-command reply, and
\* the store is neither read nor written.
\* ------------------------------------------------------------------------
SingleNumberLine(req) ==
    /\ Handled(req)
    /\ Len(PartsOf[req.text]) = 1
    /\ \A i \in 1..Len(PartsOf[req.text][1]) : IsDigitChar(PartsOf[req.text][1][i])

C16_SingleNumberInvalid ==
    SingleNumberLine(last)
    => /\ last.out = <<Msg("invalid_format")>>
       /\ last.calls = <<>>
       /\ sheet = last.before
       /\ last.status = "ok"

\* A line of three digits between spaces was answered, the store holding
\* data rows.
C16_Witness ==
    /\ SingleNumberLine(last)
    /\ Len(PartsOf[last.text][1]) = 3
    /\ last.text # TextOf[last.text]
    /\ DataRows(sheet) # <<>>
    /\ ReplyKind(last) = "invalid_format"

\* ------------------------------------------------------------------------
\* C17: every request ends with a status among "ignored", "ok" and "error",
\* whatever the store and the messenger raise: a store or messenger failure
\* in a Show, Delete or Save branch is caught in the branch and the status
\* is "ok"; only a fault outside these branches gives the status "error".
\* ------------------------------------------------------------------------
StoreBranches == {"show", "delete_all", "delete", "save"}

\* The reply of each branch to a store call that raised.
BranchErrorReply ==
    [b \in StoreBranches |->
        CASE b = "show" -> "show_error"
          [] b = "delete_all" -> "delete_all_error"
          [] b = "delete" -> "delete_error"
          [] b = "save" -> "save_error"]

C17_AlwaysAcknowledged ==
    last.branch # "none"
    => /\ last.status \in {"ignored", "ok", "error"}
       /\ (last.status = "error") <=> (last.branch = "fault")
       /\ (last.status = "ignored") <=> FromStranger(last)
       /\ last.fail \in {"read", "clear", "update", "append"}
          => /\ last.branch \in StoreBranches
             /\ last.status = "ok"
             /\ last.out \in {<<>>, <<Msg(BranchErrorReply[last.branch])>>}

\* The rewrite of a delete raised and so did the post of the error reply:
\* the request ended with the status "ok" and no message.
C17_Witness ==
    /\ Handled(last)
    /\ last.branch \in {"delete_all", "delete"}
    /\ last.fail = "update"
    /\ last.out = <<>>
    /\ last.status = "ok"
    /\ sheet = <<>>

\* ------------------------------------------------------------------------
\* C18: with DeleteOne and DeleteAll commands run one at a time, no store
\* call failing, on a table that has a header row, the first row of the
\* table stays the header row it was: no delete filters it out or takes it
\* for a data row.
\* ------------------------------------------------------------------------
C18_HeaderRowStays ==
    [][ sheet' # <<>> /\ sheet'[1] = sheet[1] ]_vars

\* The id of a DeleteAll is, as the code compares it, the first cell of the
\* header row, or the three tokens of a DeleteOne are its first three
\* cells; the delete rewrote a table that holds data rows, and the header
\* row is the first row.
NamesHeaderRow(req, sh) ==
    \/ /\ req.branch = "delete_all"
       /\ ReplyKind(req) = "deleted_all"
       /\ Lower(NamedId(req)) = sh[1][1]
    \/ /\ IsDeleteOne(req)
       /\ ReplyKind(req) = "no_match"
       /\ \A i \in 1..3 : PartsOf[req.text][i + 1] = sh[1][i]

C18_Witness ==
    /\ Handled(last)
    /\ NamesHeaderRow(last, last.before)
    /\ DataRows(sheet) # <<>>
    /\ sheet = last.before

====
